---- MODULE Spec2Model ----
(***************************************************************************)
(* beat-func (src/main.py): the process-wide LRU cache of beat analyses,   *)
(* the two HTTP handlers and the processing pipeline they share.           *)
(*                                                                         *)
(* The handlers are coroutines of one event loop.  A handler runs without  *)
(* interruption up to its next await; the only await that suspends one is  *)
(* `await song.read()` of the upload handler.  `running` is the request    *)
(* the loop is executing (0 when the loop is idle).                        *)
(***************************************************************************)
EXTENDS Integers, Sequences, FiniteSets, TLC

\* ------------------------------------------------------------------ bounds
\* Requests observed (beyond those that warmed the cache up, see Init).
MaxRequests == 2
\* Durations tried on either side of MAX_LENGTH, in seconds.
LenSpan == 2
\* Largest suggested_bpm and largest drift tried, besides 120 and 15.
MaxBpmIn == 2
MaxDriftIn == 2
\* Files of up to MaxBlocks whole blocks and one byte are fingerprinted.
MaxBlocks == 2

\* ------------------------------------------------------- program constants
\* cache = LRUFileCache(maxsize=8)
maxsize == 8
\* MAX_LENGTH = 60 * 6 + 30
MAX_LENGTH == 60 * 6 + 30
\* if len(effects) > 5 / if len(effects) < 1
MaxEffects == 5
MinEffects == 1

\* ------------------------------------------------------------------ inputs
Requests == 1 .. MaxRequests

\* A song is known by the xxh32 digest of its bytes and by what the MP3
\* container parser makes of it.  The cache keys are the digests
\* 1 .. maxsize + 1, one more than the cache can hold.  The songs the observed
\* requests send are the two that a full warm cache used longest ago, one it
\* does not hold, a file that is no MP3 and a song over the length limit.
Digests == 1 .. (maxsize + 1)
Catalogue == {1, 2, maxsize + 1}
Unreadable == [digest |-> 0, readable |-> FALSE, length |-> 0]
TooLong == [digest |-> maxsize + 2, readable |-> TRUE, length |-> MAX_LENGTH + 1]
Songs == {[digest |-> d, readable |-> TRUE, length |-> MAX_LENGTH] : d \in Catalogue}
            \cup {Unreadable, TooLong}

\* Settings dictionaries: no key, or a suggested tempo.
NoSettings == [k \in {} |-> 0]
Settings == {NoSettings, [suggested_bpm |-> 120]}

\* Effect chains are known by their length and by the exception, if any, with
\* which the engine's load_from_dict refuses one of the descriptors.
ChainLens == {MinEffects - 1, MinEffects, MaxEffects, MaxEffects + 1}
Refusals == {"TypeError", "KeyError", "ValueError"}
Chains == {c \in [len : ChainLens, refused : Refusals \cup {"none"}] :
             c.refused # "none" => c.len >= 1}
NoChain == [len |-> 0, refused |-> "none"]

\* The multipart form of POST /: the `effects` field is absent, is not JSON,
\* is a JSON object without an `effects` key, is a bare list, or is an object
\* with `effects` and `settings`; the `song` part is there or not.
Forms == {f \in [shape : {"absent", "malformed", "nokey", "list", "dict"},
                 chain : Chains, settings : Settings, song : BOOLEAN] :
            /\ f.shape \in {"absent", "malformed", "nokey"}
                  => f.chain = NoChain /\ f.settings = NoSettings
            /\ f.shape = "list" => f.settings = NoSettings}

\* The JSON body of POST /yt, as pydantic has validated it.
Payloads == [chain : Chains, settings : Settings]

\* A wider range of inputs for one upload: every duration within LenSpan
\* seconds of MAX_LENGTH, for a song the warm cache holds and one it does not;
\* settings with any of the keys suggested_bpm and drift, zero and negative
\* values included.
Lengths == (MAX_LENGTH - LenSpan) .. (MAX_LENGTH + LenSpan)
LenSongs == {[digest |-> d, readable |-> TRUE, length |-> n] :
               d \in {1, maxsize + 1}, n \in Lengths}
Bpms == (-1 .. MaxBpmIn) \cup {120}
Drifts == (-1 .. MaxDriftIn) \cup {15}
KwSettings == {NoSettings}
                \cup {[suggested_bpm |-> b] : b \in Bpms}
                \cup {[drift |-> x] : x \in Drifts}
                \cup {[suggested_bpm |-> b, drift |-> x] : b \in Bpms, x \in Drifts}
KwForms == {[shape |-> "dict", chain |-> [len |-> MinEffects, refused |-> "none"],
             settings |-> st, song |-> TRUE] : st \in KwSettings}

\* ------------------------------------------------------------------- files
NoFile == [base |-> 0, ext |-> "none"]
\* NamedTemporaryFile(suffix=".mp3") / str(uuid.uuid4()) + ".mp3": a name no
\* other request has.  Request r's name has base r; the requests that warmed
\* the cache up had bases -1, -2, ...
TempName(r) == [base |-> r, ext |-> "mp3"]
\* A slip: the analysis is pickled over the source file itself.
BeatName_source(filename) == filename

\* beat_filename = f'{filename}_beats.pkl'
BeatName(filename) == [filename EXCEPT !.ext = "mp3_beats.pkl"]

NoBeats == [digest |-> 0, min_bpm |-> 0, max_bpm |-> 0, applied |-> 0]
SongFile(s) == [kind |-> "song", song |-> s, beats |-> NoBeats, intact |-> TRUE]
BeatFile(b) == [kind |-> "beats", song |-> Unreadable, beats |-> b, intact |-> TRUE]

VARIABLES
  cache,     \* the LRUCache: data (fingerprint -> file name), order (LRU first)
  disk,      \* file name -> content, for the files that exist
  req,       \* the requests: position in the handler and locals
  running,   \* the request the event loop is executing, 0 when idle
  calls,     \* invocations of bm.Beats.from_song so far
  accessed,  \* indexed fingerprints by their latest cache[d] / cache[d] = v
  hasher     \* path -> the fingerprinting loop that reads the file there

vars == <<cache, disk, req, running, calls, accessed, hasher>>

Idle == [pc |-> "idle", status |-> 0, detail |-> "", filename |-> NoFile,
         effects |-> 0, settings |-> NoSettings,
         min_bpm |-> 0, max_bpm |-> 0, beats |-> NoBeats]

\* ------------------------------------------------------------ pure helpers
Remove(seq, x) == SelectSeq(seq, LAMBDA y : y # x)
MoveToEnd(seq, x) == Append(Remove(seq, x), x)
Without(f, x) == [y \in DOMAIN f \ {x} |-> f[y]]
With(f, x, v) == (x :> v) @@ f

\* A slip: the key is tested by its value, so a suggested_bpm of 0 counts as
\* absent.
_settings_to_kwargs_truthy(settings) ==
  IF "suggested_bpm" \in DOMAIN settings /\ settings.suggested_bpm # 0
    THEN LET drift == IF "drift" \in DOMAIN settings THEN settings.drift ELSE 15
         IN  [min_bpm |-> settings.suggested_bpm - drift,
              max_bpm |-> settings.suggested_bpm + drift]
    ELSE [min_bpm |-> 60, max_bpm |-> 300]

\* _settings_to_kwargs
_settings_to_kwargs(settings) ==
  IF "suggested_bpm" \in DOMAIN settings
    THEN LET drift == IF "drift" \in DOMAIN settings THEN settings.drift ELSE 15
         IN  [min_bpm |-> settings.suggested_bpm - drift,
              max_bpm |-> settings.suggested_bpm + drift]
    ELSE [min_bpm |-> 60, max_bpm |-> 300]

\* ---------------------------------------------------------------- the cache
\* The operators below work on a "world" w = [cache, disk, raised]: raised is
\* set when an exception leaves the cache call.

\* A slip: the file is removed without being looked for.
isfile_always(d, v) == TRUE

\* os.path.isfile(v)
isfile(d, v) == v \in DOMAIN d

\* os.remove(v): FileNotFoundError when there is no such file
os_remove(w, v) ==
  IF v \in DOMAIN w.disk THEN [w EXCEPT !.disk = Without(w.disk, v)]
                          ELSE [w EXCEPT !.raised = TRUE]

\* A slip: the entry is dropped and its backing file is left on disk.
popitem_keepfile(w) ==
  [w EXCEPT !.cache = [data  |-> Without(w.cache.data, Head(w.cache.order)),
                       order |-> Tail(w.cache.order)]]

\* LRUFileCache.popitem: LRUCache.popitem takes the first key of the order
\* and deletes the entry; the override removes the backing file if it is one.
popitem(w) ==
  LET k == Head(w.cache.order)
      v == w.cache.data[k]
      w1 == [w EXCEPT !.cache = [data  |-> Without(w.cache.data, k),
                                 order |-> Tail(w.cache.order)]]
  IN  IF isfile(w1.disk, v) THEN os_remove(w1, v) ELSE w1

\* A slip: nothing is ever evicted.
MakeRoom_never(w) == w

\* Cache.__setitem__: while self.currsize + size > maxsize: self.popitem()
RECURSIVE MakeRoom(_)
MakeRoom(w) ==
  IF ~w.raised /\ Len(w.cache.order) + 1 > maxsize THEN MakeRoom(popitem(w)) ELSE w

\* A slip: the analysis is written to disk and never indexed.
setitem_unindexed(w, d, v) == w

\* cache[d] = v  (LRUCache.__setitem__): room is made for a new key only; the
\* key becomes the most recently used.
setitem(w, d, v) ==
  LET w1 == IF d \notin DOMAIN w.cache.data THEN MakeRoom(w) ELSE w
  IN  IF w1.raised
        THEN w1
        ELSE [w1 EXCEPT !.cache = [data  |-> With(w1.cache.data, d, v),
                                   order |-> MoveToEnd(w1.cache.order, d)]]

\* A slip: a lookup leaves the order alone (insertion-order FIFO).
getitem_fifo(c, d) == c

\* cache[d]  (LRUCache.__getitem__): the key becomes the most recently used.
getitem(c, d) == [c EXCEPT !.order = MoveToEnd(c.order, d)]

\* Slips: every load is taken to succeed; no load is.
Loadable_always(d, name) == TRUE
Loadable_never(d, name) == FALSE

\* pickle.load(open(name, 'rb')) succeeds: the file is there and is the
\* pickle that was written.
Loadable(d, name) == name \in DOMAIN d /\ d[name].kind = "beats" /\ d[name].intact

\* ------------------------------------------------------------ fingerprinting
\* file.read(512)
BlockSize == 512

\* Two files at different paths, and what they hold: byte strings whose
\* lengths lie on and next to the multiples of the block size, the empty
\* file included, filled in one of two ways.
Paths == {"a.mp3", "b.mp3"}
ContentLens == {n \in {k * BlockSize + e : k \in 0 .. MaxBlocks, e \in {-1, 0, 1}} :
                  n >= 0}
Contents == {[i \in 1 .. n |-> (i * step) % 256] : n \in ContentLens, step \in {1, 3}}

\* The loop of lines 74-80 over one file: the bytes the file holds, the
\* position of the file object, the block last read, the bytes the hash
\* object has been updated with, in order, and the digest once taken.
Unopened(bytes) == [pc |-> "open", content |-> bytes, pos |-> 0, block |-> <<>>,
                    fed |-> <<>>, d |-> <<>>]

\* file.read(n): the next n bytes, fewer at the end of the file, none after it
file_read(bytes, pos, n) ==
  SubSeq(bytes, pos + 1, IF pos + n < Len(bytes) THEN pos + n ELSE Len(bytes))

\* A slip: the loop goes on while whole blocks arrive.
more_whole(block) == Len(block) = BlockSize

\* while block:
more(block) == Len(block) > 0

\* xxhash is a library and its arithmetic is not modelled.  A digest is the
\* value xxh32 gives the bytes it was updated with, in the order they came,
\* however they were split over the update calls.
xxh32_digest(fed) == [xxh32_of |-> fed]

\* h = xxhash.xxh32(); open(filename, 'rb'); block = file.read(512)
hash_open(p) ==
  /\ hasher[p].pc = "open"
  /\ LET block == file_read(hasher[p].content, 0, BlockSize)
     IN  hasher' = [hasher EXCEPT ![p] = [@ EXCEPT !.pc = "loop", !.block = block,
                                                   !.pos = Len(block)]]
  /\ UNCHANGED <<cache, disk, req, running, calls, accessed>>

\* h.update(block); block = file.read(512)
hash_update(p) ==
  /\ hasher[p].pc = "loop"
  /\ more(hasher[p].block)
  /\ LET block == file_read(hasher[p].content, hasher[p].pos, BlockSize)
     IN  hasher' = [hasher EXCEPT ![p] =
                      [@ EXCEPT !.fed = @ \o hasher[p].block, !.block = block,
                                !.pos = @ + Len(block)]]
  /\ UNCHANGED <<cache, disk, req, running, calls, accessed>>

\* d = h.digest()
hash_digest(p) ==
  /\ hasher[p].pc = "loop"
  /\ ~more(hasher[p].block)
  /\ hasher' = [hasher EXCEPT ![p] = [@ EXCEPT !.pc = "done",
                                                !.d = xxh32_digest(hasher[p].fed)]]
  /\ UNCHANGED <<cache, disk, req, running, calls, accessed>>

\* ----------------------------------------------------------------- requests
Done(r, status, detail) ==
  [Idle EXCEPT !.pc = "done", !.status = status, !.detail = detail,
               !.filename = req[r].filename]

\* A slip: a handler is started while another request is being run (as a
\* `def` handler is, in a worker thread).
Fresh_anytime(r) == /\ req[r].pc = "idle"
                    /\ \A q \in Requests : q < r => req[q].pc # "idle"

Fresh(r) == /\ running = 0
            /\ req[r].pc = "idle"
            /\ \A q \in Requests : q < r => req[q].pc # "idle"

\* What the upload handler does with the `effects` field (lines 182-217):
\* the HTTP error it raises, or detail "ok" when the chain passes, or status
\* 500 with no detail for an exception that no except clause of the handler
\* catches (json.loads(None) raises TypeError outside the inner try).
FileEffects(f) ==
  CASE f.shape = "absent"    -> [status |-> 500, detail |-> ""]
    [] f.shape = "malformed" -> [status |-> 400, detail |-> "Invalid effects"]
    [] f.shape = "nokey"     -> [status |-> 400, detail |-> "Missing effects"]
    [] OTHER ->
       CASE f.chain.refused = "TypeError"  -> [status |-> 400, detail |-> "Invalid effect data"]
         [] f.chain.refused = "KeyError"   -> [status |-> 400, detail |-> "Missing effects"]
         [] f.chain.refused = "ValueError" -> [status |-> 400, detail |-> "Invalid effects"]
         [] f.chain.len > MaxEffects -> [status |-> 400, detail |-> "Too many effects (max is 5)"]
         [] f.chain.len < MinEffects -> [status |-> 400, detail |-> "Not enough effects (min is 1)"]
         [] OTHER -> [status |-> 0, detail |-> "ok"]

\* POST /, up to `await song.read()`.
process_song_from_file(r, f) ==
  /\ Fresh(r)
  /\ LET e == FileEffects(f)
         name == TempName(r)
     IN  IF e.detail # "ok"
           THEN /\ req' = [req EXCEPT ![r] = Done(r, e.status, e.detail)]
                /\ disk' = disk
           ELSE \* with NamedTemporaryFile(suffix=".mp3", delete=False) as fp
                /\ disk' = With(disk, name, SongFile(Unreadable))
                /\ IF f.song
                     THEN req' = [req EXCEPT ![r] =
                                    [Idle EXCEPT !.pc = "read", !.filename = name,
                                                 !.effects = f.chain.len,
                                                 !.settings = f.settings]]
                     ELSE \* song is None: song.read raises AttributeError
                          req' = [req EXCEPT ![r] =
                                    [Idle EXCEPT !.pc = "done", !.status = 500,
                                                 !.filename = name]]
  /\ UNCHANGED <<cache, running, calls, accessed, hasher>>

\* A slip: a suspended handler is resumed while another request is being run.
Resumable_anytime(r) == req[r].pc = "read"

\* The loop resumes a handler suspended in `await song.read()` when it is
\* executing no other.
Resumable(r) == running = 0 /\ req[r].pc = "read"

\* POST /, from the return of `await song.read()`: the bytes are written and
\* process_song is entered.
song_read(r, s) ==
  /\ Resumable(r)
  /\ disk' = With(disk, req[r].filename, SongFile(s))
  /\ LET kw == _settings_to_kwargs(req[r].settings)
     IN  req' = [req EXCEPT ![r] = [@ EXCEPT !.pc = "validate",
                                             !.settings = NoSettings,
                                             !.min_bpm = kw.min_bpm,
                                             !.max_bpm = kw.max_bpm]]
  /\ running' = r
  /\ UNCHANGED <<cache, calls, accessed, hasher>>

\* POST /yt, lines 142-148: the effects are loaded; only TypeError is caught.
process_song_from_youtube(r, p) ==
  /\ Fresh(r)
  /\ IF p.chain.refused = "TypeError"
       THEN /\ req' = [req EXCEPT ![r] = Done(r, 400, "Invalid effect data")]
            /\ running' = 0
       ELSE IF p.chain.refused # "none"
         THEN /\ req' = [req EXCEPT ![r] = Done(r, 500, "")]
              /\ running' = 0
         ELSE /\ req' = [req EXCEPT ![r] =
                           [Idle EXCEPT !.pc = "download", !.effects = p.chain.len,
                                        !.settings = p.settings]]
              /\ running' = r
  /\ UNCHANGED <<cache, disk, calls, accessed, hasher>>

\* POST /yt, lines 150-174: the download, then process_song is entered.
download(r, ok, s) ==
  /\ running = r
  /\ req[r].pc = "download"
  /\ IF ~ok
       THEN /\ req' = [req EXCEPT ![r] = Done(r, 400, "Failed to download video")]
            /\ running' = 0
            /\ disk' = disk
       ELSE LET kw == _settings_to_kwargs(req[r].settings)
            IN  /\ disk' = With(disk, TempName(r), SongFile(s))
                /\ req' = [req EXCEPT ![r] = [@ EXCEPT !.pc = "validate",
                                                       !.filename = TempName(r),
                                                       !.settings = NoSettings,
                                                       !.min_bpm = kw.min_bpm,
                                                       !.max_bpm = kw.max_bpm]]
                /\ running' = r
  /\ UNCHANGED <<cache, calls, accessed, hasher>>

\* A slip: the limit itself is refused.
over_length_inclusive(length) == length >= MAX_LENGTH

\* if metadata.info.length > MAX_LENGTH
over_length(length) == length > MAX_LENGTH

\* A slip: the length is checked after the song has been analysed.
validate_late(r) ==
  /\ running = r
  /\ req[r].pc = "validate"
  /\ LET song == disk[req[r].filename].song
     IN  IF ~song.readable
           THEN /\ req' = [req EXCEPT ![r] = Done(r, 422, "Failed to read song metadata")]
                /\ running' = 0
                /\ calls' = calls
           ELSE IF over_length(song.length)
             THEN /\ req' = [req EXCEPT ![r] = Done(r, 422, "Song is too long")]
                  /\ running' = 0
                  /\ calls' = calls + 1
             ELSE /\ req' = [req EXCEPT ![r].pc = "beats"]
                  /\ running' = r
                  /\ calls' = calls
  /\ UNCHANGED <<cache, disk, accessed, hasher>>

\* process_song, lines 104-110.
validate(r) ==
  /\ running = r
  /\ req[r].pc = "validate"
  /\ LET song == disk[req[r].filename].song
     IN  IF ~song.readable
           THEN /\ req' = [req EXCEPT ![r] = Done(r, 422, "Failed to read song metadata")]
                /\ running' = 0
           ELSE IF over_length(song.length)
             THEN /\ req' = [req EXCEPT ![r] = Done(r, 422, "Song is too long")]
                  /\ running' = 0
             ELSE /\ req' = [req EXCEPT ![r].pc = "beats"]
                  /\ running' = r
  /\ UNCHANGED <<cache, disk, calls, accessed, hasher>>

\* find_or_load_beats, lines 74-80: the xxh32 digest of the request's file.
Fingerprint(r) == disk[req[r].filename].song.digest

\* find_or_load_beats, lines 73-98.  `io` is what the environment does to it:
\* the file cannot be read, or the engine's analysis raises, or neither.
find_or_load_beats(r, io) ==
  /\ running = r
  /\ req[r].pc = "beats"
  /\ UNCHANGED hasher
  /\ LET filename == req[r].filename
         d == Fingerprint(r)
         hit == d \in DOMAIN cache.data
         \* cache[d] is evaluated on a hit, whether or not the load succeeds
         c1 == IF hit THEN getitem(cache, d) ELSE cache
         acc1 == IF hit THEN MoveToEnd(accessed, d) ELSE accessed
         beats == [digest |-> d, min_bpm |-> req[r].min_bpm,
                   max_bpm |-> req[r].max_bpm, applied |-> 0]
         beat_filename == BeatName(filename)
         w1 == [cache |-> c1, disk |-> With(disk, beat_filename, BeatFile(beats)),
                raised |-> FALSE]
         w2 == setitem(w1, d, beat_filename)
     IN  IF io = "read_error"
           THEN /\ req' = [req EXCEPT ![r] = Done(r, 500, "")]
                /\ running' = 0
                /\ UNCHANGED <<cache, disk, calls, accessed>>
           ELSE IF hit /\ Loadable(disk, cache.data[d])
             THEN                   /\ req' = [req EXCEPT ![r] = [@ EXCEPT !.pc = "apply",
                                                  !.beats = disk[cache.data[d]].beats]]
                  /\ cache' = c1
                  /\ accessed' = acc1
                  /\ UNCHANGED <<disk, calls, running>>
             ELSE /\ calls' = calls + 1
                  /\ IF io = "analysis_error"
                       THEN /\ req' = [req EXCEPT ![r] = Done(r, 500, "")]
                            /\ running' = 0
                            /\ cache' = c1
                            /\ accessed' = acc1
                            /\ disk' = disk
                       ELSE /\ cache' = w2.cache
                            /\ disk' = w2.disk
                            /\ IF w2.raised
                                 THEN \* the exception leaves cache[d] = v
                                      /\ req' = [req EXCEPT ![r] = Done(r, 500, "")]
                                      /\ running' = 0
                                      /\ accessed' = SelectSeq(acc1,
                                              LAMBDA k : k \in DOMAIN w2.cache.data)
                                 ELSE /\ req' = [req EXCEPT ![r] =
                                                   [@ EXCEPT !.pc = "apply",
                                                             !.beats = beats]]
                                      /\ running' = r
                                      /\ accessed' = SelectSeq(MoveToEnd(acc1, d),
                                              LAMBDA k : k \in DOMAIN w2.cache.data)

\* process_song, lines 121-122: the effects are applied in order.
apply_effects(r, ok) ==
  /\ running = r
  /\ req[r].pc = "apply"
  /\ IF ok
       THEN /\ req' = [req EXCEPT ![r] = [@ EXCEPT !.pc = "save",
                                                   !.beats.applied = req[r].effects]]
            /\ running' = r
       ELSE /\ req' = [req EXCEPT ![r] = Done(r, 500, "")]
            /\ running' = 0
  /\ UNCHANGED <<cache, disk, calls, accessed, hasher>>

\* process_song, lines 124-131: the result is encoded, the source removed.
save(r, ok) ==
  /\ running = r
  /\ req[r].pc = "save"
  /\ IF ok
       THEN /\ disk' = Without(disk, req[r].filename)
            /\ req' = [req EXCEPT ![r] = Done(r, 200, "")]
       ELSE /\ disk' = disk
            /\ req' = [req EXCEPT ![r] = Done(r, 500, "")]
  /\ running' = 0
  /\ UNCHANGED <<cache, calls, accessed, hasher>>

\* Something outside the process damages a backing file (the cache lives on
\* the disk the process runs on).  Damage shows only when the file is loaded,
\* so it is taken to happen right before the load of line 85.
damage(name) ==
  /\ \E r \in Requests :
        /\ running = r
        /\ req[r].pc = "beats"
        /\ Fingerprint(r) \in DOMAIN cache.data
        /\ name = cache.data[Fingerprint(r)]
  /\ Loadable(disk, name)
  /\ disk' = [disk EXCEPT ![name].intact = FALSE]
  /\ UNCHANGED <<cache, req, running, calls, accessed, hasher>>

\* ---------------------------------------------------------------- behaviour
\* The state after k uploads of the songs 1 .. k with one effect and no
\* settings have been served, the first of them right after construction
\* (cache = LRUFileCache(maxsize=8), nothing on disk).
WarmName(i) == [base |-> 0 - i, ext |-> "mp3"]
Warm(k) ==
  /\ cache = [data  |-> [d \in 1 .. k |-> BeatName(WarmName(d))],
              order |-> [i \in 1 .. k |-> i]]
  /\ disk = [n \in {BeatName(WarmName(d)) : d \in 1 .. k} |->
               BeatFile([digest |-> 0 - n.base, min_bpm |-> 60, max_bpm |-> 300,
                         applied |-> 0])]
  /\ req = [r \in Requests |-> Idle]
  /\ running = 0
  /\ calls = k
  /\ accessed = [i \in 1 .. k |-> i]
  /\ hasher = [p \in Paths |-> Unopened(<<>>)]

WarmSizes == {0, maxsize}

Init == \E k \in WarmSizes : Warm(k)

Next ==
  \/ \E r \in Requests, f \in Forms : process_song_from_file(r, f)
  \/ \E r \in Requests, s \in Songs : song_read(r, s)
  \/ \E r \in Requests, p \in Payloads : process_song_from_youtube(r, p)
  \/ \E r \in Requests, ok \in BOOLEAN, s \in Songs : download(r, ok, s)
  \/ \E r \in Requests : validate(r)
  \/ \E r \in Requests, io \in {"ok", "read_error", "analysis_error"} :
        find_or_load_beats(r, io)
  \/ \E r \in Requests, ok \in BOOLEAN : apply_effects(r, ok)
  \/ \E r \in Requests, ok \in BOOLEAN : save(r, ok)
  \/ \E name \in DOMAIN disk : damage(name)

Spec == Init /\ [][Next]_vars

\* One upload, the first after Init, drawn from the wider inputs.
NextInputs ==
  \/ \E f \in KwForms : process_song_from_file(1, f)
  \/ \E s \in LenSongs : song_read(1, s)
  \/ validate(1)
  \/ \E io \in {"ok", "read_error", "analysis_error"} : find_or_load_beats(1, io)
  \/ \E ok \in BOOLEAN : apply_effects(1, ok)
  \/ \E ok \in BOOLEAN : save(1, ok)

SpecInputs == Init /\ [][NextInputs]_vars

\* Something outside the process removes a backing file.  Its absence shows
\* when the file is loaded, where it is no different from damage, and when
\* its entry is evicted, so the removal is taken to happen right before the
\* store that evicts the entry.
unlink(name) ==
  /\ \E r \in Requests :
        /\ running = r
        /\ req[r].pc = "beats"
        /\ Fingerprint(r) \notin DOMAIN cache.data
  /\ Len(cache.order) = maxsize
  /\ name = cache.data[Head(cache.order)]
  /\ disk' = Without(disk, name)
  /\ UNCHANGED <<cache, req, running, calls, accessed, hasher>>

\* The service with a full cache, on a disk where backing files can go away.
NextGone ==
  \/ Next
  \/ \E name \in DOMAIN disk : unlink(name)

SpecGone == Warm(maxsize) /\ [][NextGone]_vars

\* The fingerprinting loop alone, over two files of any contents.
InitHash ==
  /\ cache = [data |-> <<>>, order |-> <<>>]
  /\ disk = <<>>
  /\ req = [r \in Requests |-> Idle]
  /\ running = 0
  /\ calls = 0
  /\ accessed = <<>>
  /\ hasher \in {[p \in Paths |-> Unopened(c[p])] : c \in [Paths -> Contents]}

NextHash ==
  \/ \E p \in Paths : hash_open(p)
  \/ \E p \in Paths : hash_update(p)
  \/ \E p \in Paths : hash_digest(p)

SpecHash == InitHash /\ [][NextHash]_vars


\* ------------------------------------------------------------------- claims
Index == DOMAIN cache.data
Index2 == DOMAIN cache'.data
Exists(name) == name \in DOMAIN disk
Exists2(name) == name \in DOMAIN disk'
Intact(name) == name \in DOMAIN disk /\ disk[name].intact

\* C1: in every reachable state the cache index holds at most maxsize = 8
\* entries.
C1_IndexBounded ==
  /\ Cardinality(Index) <= maxsize
  /\ Len(cache.order) <= maxsize

\* C1 witness: the index is full after a ninth fingerprint has been stored.
C1_Witness ==
  /\ Cardinality(Index) = maxsize
  /\ (maxsize + 1) \in Index

\* C2: a store of a fingerprint that is not indexed, into a full index, evicts
\* exactly the entry whose latest access (store or lookup hit) is the oldest;
\* every other entry stays.
C2_EvictsLeastRecentlyUsed ==
  [][\A d \in Digests :
       (d \notin Index /\ d \in Index2 /\ Cardinality(Index) = maxsize)
         => Index2 = (Index \ {Head(accessed)}) \cup {d}]_vars

\* C2 witness: entry 1, the oldest of the warm cache, was hit and is still the
\* entry that was stored then, and entry 2, stored after it and never hit, has
\* been evicted.
C2_Witness ==
  /\ 1 \in Index
  /\ cache.data[1] = BeatName(WarmName(1))
  /\ 2 \notin Index
  /\ (maxsize + 1) \in Index

\* C3: in every reachable state every indexed fingerprint maps to a backing
\* file that is on disk.
C3_IndexedFilesExist ==
  \A d \in Index : Exists(cache.data[d]) /\ disk[cache.data[d]].kind = "beats"

\* C3 witness: a request has been served (its source file removed) with a
\* store that evicted another entry, and the index is not empty.
C3_Witness ==
  /\ \E r \in Requests : req[r].status = 200 /\ ~Exists(req[r].filename)
  /\ ~Exists(BeatName(WarmName(1)))
  /\ Cardinality(Index) = maxsize

\* C4: a request that has terminated has left no temporary source file.
C4_SourceFileDeleted ==
  \A r \in Requests :
    (req[r].pc = "done" /\ req[r].filename # NoFile) => ~Exists(req[r].filename)

\* The step is request r leaving find_or_load_beats.
Looked(r) == running = r /\ req[r].pc = "beats" /\ req'[r].pc # "beats"

\* C5: once a request has succeeded its fingerprint is indexed, and a lookup
\* of an indexed fingerprint whose backing file is loadable does not invoke
\* Beats.from_song: the stored analysis is what the request goes on with.
C5_HitSkipsEngine ==
  [][\A r \in Requests :
       /\ (running = r /\ req[r].pc = "save" /\ req'[r].status = 200)
            => Fingerprint(r) \in Index2
       /\ (Looked(r) /\ Fingerprint(r) \in Index /\ Intact(cache.data[Fingerprint(r)]))
            => /\ calls' = calls
               /\ req'[r].pc = "apply"
                    => req'[r].beats = disk[cache.data[Fingerprint(r)]].beats]_vars

\* C5 witness: from a cold start one request has succeeded with the only
\* engine call there was, and a second one is past its lookup of the same
\* fingerprint.
C5_Witness ==
  /\ calls = 1
  /\ \E q, r \in Requests :
       /\ req[q].status = 200
       /\ req[r].pc = "apply"
       /\ Index = {req[r].beats.digest}
       /\ cache.data[req[r].beats.digest] = BeatName(req[q].filename)

\* C6: a lookup that finds the fingerprint indexed and the backing file not
\* loadable goes on as a miss: with the source readable and the engine
\* working, the analysis is computed again and written to a fresh backing
\* file, the entry then names that file, and the request goes on to the
\* effects with no error.
C6_CorruptEntryIsMiss ==
  [][\A r \in Requests :
       (/\ running = r /\ req[r].pc = "beats"
        /\ Fingerprint(r) \in Index
        /\ ~Intact(cache.data[Fingerprint(r)])
        /\ find_or_load_beats(r, "ok"))
         => LET d == Fingerprint(r)
                fresh == BeatName(req[r].filename)
            IN  /\ req'[r].pc = "apply" /\ req'[r].status = 0
                /\ calls' = calls + 1
                /\ fresh # cache.data[d]
                /\ cache'.data[d] = fresh
                /\ Exists2(fresh) /\ disk'[fresh].intact
                /\ disk'[fresh].beats = req'[r].beats]_vars

\* C6 witness: a request has succeeded whose own backing file is the indexed
\* one for a fingerprint of which a damaged backing file is still around.
C6_Witness ==
  \E r \in Requests, d \in Index :
    /\ req[r].status = 200
    /\ cache.data[d] = BeatName(req[r].filename)
    /\ \E n \in DOMAIN disk : ~disk[n].intact /\ disk[n].beats.digest = d

\* C7: an entry that leaves the index leaves no backing file, and a lookup of
\* a fingerprint that is not indexed invokes the engine.
C7_EvictedIsGone ==
  [][/\ \A d \in Index \ Index2 : ~Exists2(cache.data[d])
     /\ \A r \in Requests :
          (/\ running = r /\ req[r].pc = "beats"
           /\ Fingerprint(r) \notin Index
           /\ \E io \in {"ok", "analysis_error"} : find_or_load_beats(r, io))
            => calls' = calls + 1]_vars

\* C7 witness: the warm entry 1 was evicted, its file is gone, and a later
\* request for fingerprint 1 had the engine analyse it again.
C7_Witness ==
  /\ ~Exists(BeatName(WarmName(1)))
  /\ 1 \in Index
  /\ cache.data[1] # BeatName(WarmName(1))
  /\ calls = maxsize + 2

\* C8: every backing file on disk is the file of an index entry (so there are
\* at most maxsize of them).
C8_NoOrphanBackingFile ==
  \A n \in DOMAIN disk :
    disk[n].kind = "beats" => \E d \in Index : cache.data[d] = n

InRange(len) == MinEffects <= len /\ len <= MaxEffects

\* C9: through POST / and through POST /yt, a chain of length 0 or of 6 and
\* more is rejected (400) by the first step of the handler, with no file
\* written, no cache access and no engine call; a chain of 1 to 5 loadable
\* effects is let through.
C9_ChainLengthEnforced ==
  [][\A r \in Requests :
       (req[r].pc = "idle" /\ req'[r].pc # "idle") =>
         /\ \A f \in Forms :
              (f.shape \in {"list", "dict"} /\ process_song_from_file(r, f)) =>
                IF InRange(f.chain.len)
                  THEN f.chain.refused = "none" => req'[r].status # 400
                  ELSE /\ req'[r].pc = "done" /\ req'[r].status = 400
                       /\ UNCHANGED <<cache, disk, calls>>
         /\ \A p \in Payloads :
              (p.chain.refused = "none" /\ process_song_from_youtube(r, p)) =>
                IF InRange(p.chain.len)
                  THEN req'[r].pc = "download"
                  ELSE /\ req'[r].pc = "done" /\ req'[r].status = 400
                       /\ UNCHANGED <<cache, disk, calls>>]_vars

\* C10: a POST / whose `effects` field is absent, is not JSON, is an object
\* with no `effects` key or holds a descriptor the engine refuses ends in
\* status 400 with a detail, and no temporary file is created.
C10_BadEffectsAre400 ==
  [][\A r \in Requests :
       (req[r].pc = "idle" /\ req'[r].pc # "idle") =>
         \A f \in Forms :
           (/\ f.shape \in {"absent", "malformed", "nokey"} \/ f.chain.refused # "none"
            /\ process_song_from_file(r, f))
             => /\ req'[r].pc = "done"
                /\ req'[r].status = 400
                /\ req'[r].detail # ""
                /\ disk' = disk]_vars

\* C11: for whole-second durations d, a readable song is refused with 422
\* "Song is too long" exactly when d > 390 (390 passes, 391 is refused); the
\* refusal touches neither the cache nor the disk nor the engine, and the
\* refused request takes no further step.
C11_TooLongExactlyAbove390 ==
  [][\A r \in Requests :
       /\ (running = r /\ req[r].pc = "validate" /\ req'[r].pc # "validate"
             /\ disk[req[r].filename].song.readable)
            => IF disk[req[r].filename].song.length > 390
                 THEN /\ req'[r].pc = "done"
                      /\ req'[r].status = 422
                      /\ req'[r].detail = "Song is too long"
                      /\ cache' = cache /\ disk' = disk /\ calls' = calls
                 ELSE /\ req'[r].pc = "beats"
                      /\ req'[r].status = 0
       /\ req[r].detail = "Song is too long" => req'[r] = req[r]]_vars

\* C11 witness: a song of 391 seconds has been refused and a ninth
\* fingerprint is not in the full index.
C11_Witness ==
  \E r \in Requests :
    /\ req[r].detail = "Song is too long"
    /\ disk[req[r].filename].song.length = 391
    /\ Cardinality(Index) = maxsize

\* C12: the BPM window handed to the engine is [suggested_bpm - drift,
\* suggested_bpm + drift] when the settings hold suggested_bpm, with drift 15
\* when the settings hold no drift, and [60, 300] when they hold no
\* suggested_bpm, a drift given alone included.
C12_BpmWindow ==
  [][\A r \in Requests :
       (req[r].pc = "read" /\ req'[r].pc = "validate")
         => LET st == req[r].settings
                lo == req'[r].min_bpm
                hi == req'[r].max_bpm
            IN  /\ ("suggested_bpm" \in DOMAIN st /\ "drift" \in DOMAIN st)
                      => lo = st.suggested_bpm - st.drift
                           /\ hi = st.suggested_bpm + st.drift
                /\ ("suggested_bpm" \in DOMAIN st /\ "drift" \notin DOMAIN st)
                      => lo = st.suggested_bpm - 15 /\ hi = st.suggested_bpm + 15
                /\ "suggested_bpm" \notin DOMAIN st => lo = 60 /\ hi = 300]_vars

\* C12 witness: a request sent a suggested_bpm of 0 with a drift of 15, and its
\* window is [-15, 15].
C12_Witness ==
  \E r \in Requests :
    req[r].pc = "validate" /\ req[r].min_bpm = -15 /\ req[r].max_bpm = 15

\* C13: the fingerprint of a file is the digest of its bytes taken as one
\* string: it is the same for two files of identical bytes at different
\* paths, and the split into blocks of 512 bytes, a short last block or an
\* empty file included, does not show in it.
C13_FingerprintOfContentOnly ==
  /\ \A p \in Paths :
        hasher[p].pc = "done" => hasher[p].d = xxh32_digest(hasher[p].content)
  /\ \A p, q \in Paths :
        (hasher[p].pc = "done" /\ hasher[q].pc = "done"
           /\ hasher[p].content = hasher[q].content)
          => hasher[p].d = hasher[q].d

\* C13 witness: two files of the same 513 bytes, one whole block and a short
\* one, have both been fingerprinted.
C13_Witness ==
  \E p, q \in Paths :
    /\ p # q
    /\ hasher[p].pc = "done" /\ hasher[q].pc = "done"
    /\ hasher[p].content = hasher[q].content
    /\ Len(hasher[p].content) = BlockSize + 1

\* A request is between its handler's last await and its response.
Inside(r) == req[r].pc \in {"download", "validate", "beats", "apply", "save"}

\* C14 as the specification states it: the membership test, the engine call
\* and the store of one request are not atomic with respect to another
\* request in flight, that is, while a request is in find_or_load_beats with
\* a fingerprint that is not indexed, a request waiting in the upload handler
\* may be resumed.
C14_OtherRequestMayRunInLookup ==
  \A r, q \in Requests :
    (r # q /\ running = r /\ req[r].pc = "beats"
       /\ Fingerprint(r) \notin Index /\ req[q].pc = "read")
      => ENABLED (\E s \in Songs : song_read(q, s))

\* C14, amended: from the last await of its handler to its response a request
\* runs alone, so no other request takes a step between its membership test
\* and its store; and the engine has never analysed a fingerprint twice while
\* the first analysis is still on disk undamaged.
C14_LookupToStoreRunsAlone ==
  /\ [][\A r, q \in Requests : (r # q /\ Inside(r)) => req'[q] = req[q]]_vars
  /\ [](\A n, m \in DOMAIN disk :
          (n # m /\ Loadable(disk, n) /\ Loadable(disk, m))
            => disk[n].beats.digest # disk[m].beats.digest)

\* C14 witness: of two uploads of the same song to a cold cache, the first
\* missed and stored its analysis, the second has loaded that analysis, and
\* the engine has been invoked once.
C14_Witness ==
  \E r, q \in Requests :
    /\ r # q
    /\ req[r].pc = "done" /\ req[r].status = 200
    /\ req[q].pc = "apply"
    /\ req[q].beats.digest \in Index
    /\ cache.data[req[q].beats.digest] = BeatName(TempName(r))
    /\ calls = 1

\* C15 as the specification states it: while a request has found its
\* fingerprint in the index and has not yet read the backing file, a request
\* waiting in the upload handler may be resumed (and its store may evict the
\* entry and delete the file).
C15_OtherRequestMayRunBeforeLoad ==
  \A r, q \in Requests :
    (r # q /\ running = r /\ req[r].pc = "beats"
       /\ Fingerprint(r) \in Index /\ req[q].pc = "read")
      => ENABLED (\E s \in Songs : song_read(q, s))

\* C15, amended: no store or eviction of another request happens while a
\* request is between its handler's last await and its response: a step that
\* is not the request's own leaves the index and the set of files as they
\* are, and the file that the index names when the request looks its
\* fingerprint up is on disk before and after the lookup.
C15_NoEvictionDuringLookup ==
  [][\A r \in Requests :
       /\ (Inside(r) /\ req'[r] = req[r])
            => cache' = cache /\ DOMAIN disk' = DOMAIN disk
       /\ (running = r /\ req[r].pc = "beats" /\ req'[r].pc # "beats"
             /\ Fingerprint(r) \in Index)
            => Exists(cache.data[Fingerprint(r)])
                 /\ Exists2(cache.data[Fingerprint(r)])]_vars

\* C15 witness: a request has loaded the analysis of its fingerprint from a
\* full index while another request is waiting in the upload handler.
C15_Witness ==
  \E r, q \in Requests :
    /\ r # q
    /\ running = r /\ req[r].pc = "apply"
    /\ req[r].beats.digest \in Index
    /\ BeatName(req[r].filename) \notin DOMAIN disk
    /\ Cardinality(Index) = maxsize
    /\ req[q].pc = "read"

\* C16: a miss whose analysis succeeds leaves find_or_load_beats with the
\* analysis on disk and indexed as the most recently used entry, no effect
\* applied yet; a failure of the effects or of the encoding that follows
\* leaves the index as it is, with the entry and its loadable file in it.
C16_StoredBeforeEffects ==
  [][\A r \in Requests :
       /\ (Looked(r) /\ calls' = calls + 1 /\ req'[r].pc = "apply")
            => LET d == Fingerprint(r)
               IN  /\ req'[r].beats.applied = 0
                   /\ d \in Index2
                   /\ cache'.order[Len(cache'.order)] = d
                   /\ Loadable(disk', cache'.data[d])
                   /\ disk'[cache'.data[d]].beats = req'[r].beats
       /\ (running = r /\ req[r].pc \in {"apply", "save"} /\ req'[r].status = 500)
            => /\ cache' = cache
               /\ req[r].beats.digest \in Index2
               /\ Loadable(disk', cache'.data[req[r].beats.digest])]_vars

\* C16 witness: a request stored its analysis and then failed with 500; a
\* later request for the same content has loaded that analysis, the engine
\* having been invoked once since the cold start.
C16_Witness ==
  \E q, r \in Requests :
    /\ q # r
    /\ req[q].pc = "done" /\ req[q].status = 500
    /\ req[r].pc = "apply"
    /\ req[r].beats.digest \in Index
    /\ cache.data[req[r].beats.digest] = BeatName(req[q].filename)
    /\ calls = 1

\* C17: when the backing file of the least recently used entry is already
\* gone at the time a store evicts the entry, the store raises nothing: the
\* entry leaves the index, the new analysis is indexed, and the request goes
\* on to its effects exactly as it does when the file is there.
C17_EvictionToleratesMissingFile ==
  [][\A r \in Requests :
       (/\ find_or_load_beats(r, "ok")
        /\ Fingerprint(r) \notin Index
        /\ Len(cache.order) = maxsize
        /\ ~Exists(cache.data[Head(cache.order)]))
         => /\ req'[r].pc = "apply"
            /\ req'[r].status = 0
            /\ req'[r].beats = [digest |-> Fingerprint(r), min_bpm |-> req[r].min_bpm,
                                max_bpm |-> req[r].max_bpm, applied |-> 0]
            /\ Head(cache.order) \notin Index2
            /\ Fingerprint(r) \in Index2
            /\ Cardinality(Index2) = maxsize
            /\ Loadable(disk', cache'.data[Fingerprint(r)])
            /\ DOMAIN disk' = DOMAIN disk \cup {BeatName(req[r].filename)}]_vars

\* C17 witness: a request is about to store a fingerprint that is not indexed
\* into a full index whose least recently used entry has lost its file.
C17_Witness ==
  \E r \in Requests :
    /\ running = r
    /\ req[r].pc = "beats"
    /\ Fingerprint(r) \notin Index
    /\ Len(cache.order) = maxsize
    /\ ~Exists(cache.data[Head(cache.order)])

\* C18: the analysis that a request's effects are applied to was made by the
\* engine with the BPM window of that request's own settings, also when an
\* earlier request sent the same content with other settings.
C18_AnalysisUsesOwnWindow ==
  \A r \in Requests :
    req[r].pc \in {"apply", "save"}
      => /\ req[r].beats.min_bpm = req[r].min_bpm
         /\ req[r].beats.max_bpm = req[r].max_bpm

\* The backing files on a disk, with what they hold.
BackingFiles(d) == [n \in {m \in DOMAIN d : d[m].kind = "beats"} |-> d[n]]

\* The responses of validation: of the effect chain, of the metadata, of the
\* length.
Rejections == {"Invalid effect data", "Missing effects", "Invalid effects",
               "Too many effects (max is 5)", "Not enough effects (min is 1)",
               "Failed to read song metadata", "Song is too long"}

\* C19: a request rejected during validation leaves the cache as it was: no
\* step of the request up to and including the rejection changes the index,
\* its recency order or the backing files on disk, or invokes the engine.
C19_RejectionLeavesCacheAlone ==
  [][\A r \in Requests :
       (/\ req'[r] # req[r]
        /\ \/ req[r].pc \in {"idle", "read", "download", "validate"}
           \/ req'[r].detail \in Rejections)
         => /\ cache' = cache
            /\ calls' = calls
            /\ BackingFiles(disk') = BackingFiles(disk)]_vars

\* C19 witness: with a full index, a song over the length limit has been
\* rejected after a chain of six effects was, and the engine has not been
\* invoked since the cache was warmed up.
C19_Witness ==
  \E q, r \in Requests :
    /\ req[q].detail = "Too many effects (max is 5)"
    /\ req[r].detail = "Song is too long"
    /\ Cardinality(Index) = maxsize
    /\ calls = maxsize

====
